---- MODULE Spec2Model ----
(***************************************************************************)
(* A model of IrcSocket (src/ircsocket.py): one stream-socket handle, a    *)
(* boolean connection flag, and the operations connect, disconnect, reset, *)
(* send_raw_text and recv_raw_text.                                        *)
(*                                                                         *)
(* Text is a sequence of Unicode code points, wire data a sequence of      *)
(* bytes.  The operating system and the peer are the environment: what an  *)
(* underlying socket call returns or raises is chosen nondeterministically *)
(* among the results that call can produce on a handle in that state.      *)
(* Calls are serialized: every method call is one action.  The operators   *)
(* connect, disconnect, reset, send_raw_text and recv_raw_text compute the *)
(* set of frames the method can end in, a frame being the object's fields  *)
(* together with what the call did (bytes put on the wire, calls made on   *)
(* the handle, the exception raised, the value returned).                  *)
(***************************************************************************)
EXTENDS Integers, Sequences, FiniteSets, TLC

VARIABLES
    _is_connected,  \* IrcSocket._is_connected
    _socket,        \* IrcSocket._socket: the current handle, [state, timeout]
    oldSockets,     \* states in which earlier handles were dropped by reset
    wire,           \* the bytes that method handed to the peer, in order
    lastOp,         \* the method called last
    lastIn,         \* its argument and what the environment answered
    lastExc,        \* the exception it raised ("none" when it returned)
    lastRet,        \* the list recv_raw_text returned (<<>> otherwise)
    ops,            \* the calls that method made on the handle, in order
    pending,        \* the call of a second caller that has passed its is_connected() test
    _config,        \* Config._config: the options of each section
    cfgLast         \* the Config method called last, what it returned or raised

vars == <<_is_connected, _socket, oldSockets, wire, lastOp, lastIn, lastExc, lastRet, ops,
          pending, _config, cfgLast>>

----------------------------------------------------------------------------
(* Program constants *)

LINE_ENDINGS == <<13, 10>>

CONNECTION_TIMEOUT == 30

RECV_TIMEOUT == 180

SEND_TIMEOUT == 30

MAX_RECV_BYTES == 4096

\* socket.gettimeout() of a socket no timeout was set on (Python's None)
TimeoutNone == 0

(* Bounds of the model *)

\* a caller sends texts of at most this many characters
MaxTextLen == 1

----------------------------------------------------------------------------
(* Sequences *)

\* s[n:] of Python, n >= 0
Drop(s, n) == SubSeq(s, n + 1, Len(s))

\* s[:n] of Python, 0 <= n
Take(s, n) == SubSeq(s, 1, IF n < Len(s) THEN n ELSE Len(s))

\* s.startswith(p)
startswith(s, p) == Len(s) >= Len(p) /\ SubSeq(s, 1, Len(p)) = p

\* s[-n:] == p, for n = len(p): the last n items, or all of s when it is shorter
endswith(s, p) == (IF Len(s) >= Len(p) THEN SubSeq(s, Len(s) - Len(p) + 1, Len(s)) ELSE s) = p

----------------------------------------------------------------------------
(* '...'.encode('UTF-8') and bytes.decode('UTF-8'), for code points below   *)
(* 2048 (one- and two-byte forms)                                          *)

encode_char(c) == IF c < 128 THEN <<c>> ELSE <<192 + (c \div 64), 128 + (c % 64)>>

RECURSIVE encode(_)
encode(text) == IF text = <<>> THEN <<>> ELSE encode_char(Head(text)) \o encode(Tail(text))

IsContinuation(b) == b >= 128 /\ b < 192

\* [ok, text]: ok is FALSE where Python raises UnicodeDecodeError
RECURSIVE decode(_)
decode(bytes) ==
    IF bytes = <<>> THEN [ok |-> TRUE, text |-> <<>>]
    ELSE LET b == Head(bytes) IN
         IF b < 128 THEN
             LET rest == decode(Tail(bytes)) IN
             [ok |-> rest.ok, text |-> <<b>> \o rest.text]
         ELSE IF b >= 194 /\ b < 224 /\ Len(bytes) >= 2 /\ IsContinuation(bytes[2]) THEN
             LET rest == decode(Drop(bytes, 2)) IN
             [ok |-> rest.ok, text |-> <<(b - 192) * 64 + (bytes[2] - 128)>> \o rest.text]
         ELSE [ok |-> FALSE, text |-> <<>>]

----------------------------------------------------------------------------
(* str.split(sep) and str.split() *)

\* the index of the first occurrence of sep in s at or after i, 0 when there is none
RECURSIVE find(_, _, _)
find(s, sep, i) ==
    IF i + Len(sep) - 1 > Len(s) THEN 0
    ELSE IF SubSeq(s, i, i + Len(sep) - 1) = sep THEN i
    ELSE find(s, sep, i + 1)

\* s.split(sep): the pieces between the occurrences of sep, empty pieces kept
RECURSIVE split_on(_, _)
split_on(s, sep) ==
    LET i == find(s, sep, 1) IN
    IF i = 0 THEN <<s>>
    ELSE <<SubSeq(s, 1, i - 1)>> \o split_on(Drop(s, i + Len(sep) - 1), sep)

\* the characters str.split() treats as whitespace, among code points below 2048
Whitespace == {9, 10, 11, 12, 13, 28, 29, 30, 31, 32, 133, 160}

\* s.split(): the maximal runs of non-whitespace characters; cur is the run being read
RECURSIVE split_ws(_, _)
split_ws(s, cur) ==
    IF s = <<>> THEN (IF cur = <<>> THEN <<>> ELSE <<cur>>)
    ELSE IF Head(s) \in Whitespace
         THEN (IF cur = <<>> THEN <<>> ELSE <<cur>>) \o split_ws(Tail(s), <<>>)
         ELSE split_ws(Tail(s), Append(cur, Head(s)))

----------------------------------------------------------------------------
(* Frames *)

\* a method starts with the object's fields and has done nothing yet
Frame(conn, sock) ==
    [conn |-> conn, sock |-> sock, dropped |-> {}, out |-> <<>>, ops |-> <<>>,
     exc |-> "none", ret |-> <<>>]

\* raise e
Raise(st, e) == [st EXCEPT !.exc = e]

\* a call on the handle: its name, the timeout the handle has when it is made, its result
Log(st, call, res) ==
    [st EXCEPT !.ops = Append(@, [call |-> call, tmo |-> st.sock.timeout, res |-> res])]

----------------------------------------------------------------------------
(* The handle: a Python socket object.  state is "fresh" (open, never      *)
(* connected), "unspec" (open, a connection attempt on it failed),         *)
(* "connected" (a connection was established on it; it stays so, for the   *)
(* operating system, after the peer went away) or "closed" (released).    *)

\* socket.socket(socket.AF_INET, socket.SOCK_STREAM)
NewSocket == [state |-> "fresh", timeout |-> TimeoutNone]

\* what the network answers to a connection attempt on a fresh handle
NetOutcomes == {"ok", "herror", "gaierror", "timeout", "error"}

\* the results socket.connect((host, port)) can have on handle sock when the network
\* would answer net: the host is resolved first; a closed handle fails at once (EBADF);
\* after a failed attempt the state of the handle is unspecified, and a further attempt
\* may fail whatever the network answers; on a handle that has carried a connection the
\* call may fail (EISCONN, ECONNABORTED), may return at once without a new connection
\* (a handle with a timeout, whose peer closed), or may make a new attempt
socket_connect(sock, net) ==
    IF net \in {"herror", "gaierror"} THEN {net}
    ELSE IF sock.state = "fresh" THEN {net}
    ELSE IF sock.state = "unspec" THEN {net, "error"}
    ELSE IF sock.state = "connected" THEN {net, "ok", "error"}
    ELSE {"error"}

\* the handle after socket.connect ended with result r
socket_after_connect(sock, r) ==
    IF r = "ok" THEN [sock EXCEPT !.state = "connected"]
    ELSE IF r \in {"timeout", "error"} /\ sock.state \in {"fresh", "connected"}
         THEN [sock EXCEPT !.state = "unspec"]
    ELSE sock

\* the results socket.shutdown(SHUT_RDWR) can have: it fails on a handle that is not
\* connected (ENOTCONN) or closed (EBADF), and may fail on a connected one (the peer
\* has reset the connection)
socket_shutdown(sock) ==
    IF sock.state = "connected" THEN {"ok", "error"} ELSE {"error"}

\* the handle after socket.close(): released; closing a closed handle does nothing
socket_close(sock) == [sock EXCEPT !.state = "closed"]

\* the results socket.send(buf) can have, [kind, n]: n bytes of buf accepted
\* (0 <= n <= len(buf)), a timeout, or another error; a handle that is not connected
\* accepts nothing
socket_send(sock, buf) ==
    IF sock.state = "connected"
    THEN {[kind |-> "timeout", n |-> 0], [kind |-> "error", n |-> 0]}
         \cup {[kind |-> "ok", n |-> n] : n \in 0..Len(buf)}
    ELSE {[kind |-> "error", n |-> 0]}

\* the results socket.recv(bufsize) can have when the peer's answer is rd: at most
\* bufsize of the bytes that arrived (none: the peer closed), a timeout, or another error
socket_recv(sock, bufsize, rd) ==
    IF sock.state = "connected"
    THEN (IF rd.kind = "data" THEN [kind |-> "data", data |-> Take(rd.data, bufsize)] ELSE rd)
    ELSE [kind |-> "error", data |-> <<>>]

----------------------------------------------------------------------------
(* IrcSocket *)

\* an is_connected() that answers True whatever the flag
is_connected_always(st) == TRUE

is_connected(st) == st.conn

\* a _set_timeout that applies a timeout only to a handle that has none yet
_set_timeout_once(st, new_timeout) ==
    LET s1 == Log(st, "gettimeout", "ok") IN
    IF s1.sock.timeout = TimeoutNone THEN
        IF s1.sock.state = "closed"
        THEN Raise([Log(s1, "settimeout", "error") EXCEPT !.sock.timeout = new_timeout],
                   "OSError")
        ELSE [Log(s1, "settimeout", "ok") EXCEPT !.sock.timeout = new_timeout]
    ELSE s1

\* socket.settimeout on a closed handle raises OSError (EBADF) after it has stored the
\* value that gettimeout returns; gettimeout does not raise
_set_timeout(st, new_timeout) ==
    LET s1 == Log(st, "gettimeout", "ok") IN
    IF new_timeout # s1.sock.timeout THEN
        IF s1.sock.state = "closed"
        THEN Raise([Log(s1, "settimeout", "error") EXCEPT !.sock.timeout = new_timeout],
                   "OSError")
        ELSE [Log(s1, "settimeout", "ok") EXCEPT !.sock.timeout = new_timeout]
    ELSE s1

\* connect with the timeout applied before the flag is looked at
connect_timeout_first(st, net) ==
    LET s1 == _set_timeout(st, CONNECTION_TIMEOUT) IN
    IF ~is_connected(st) THEN
        IF s1.exc # "none" THEN {s1}
        ELSE {[Raise(Log(s1, "connect", r),
                     IF r = "ok" THEN "none"
                     ELSE IF r = "timeout" THEN "SocketTimeout" ELSE "SocketConnectFailed")
               EXCEPT !.sock = socket_after_connect(s1.sock, r), !.conn = (r = "ok")]
              : r \in socket_connect(s1.sock, net)}
    ELSE {Raise(s1, "SocketAlreadyConnected")}

\* the except and else clauses of connect, st being the frame after socket.connect
connect_outcome(st, r) ==
    CASE r = "herror" -> Raise(st, "SocketConnectFailed")
      [] r = "gaierror" -> Raise(st, "SocketConnectFailed")
      [] r = "timeout" -> Raise(st, "SocketTimeout")
      [] r = "error" -> Raise(st, "SocketConnectFailed")
      [] r = "ok" -> [st EXCEPT !.conn = TRUE]

connect(st, net) ==
    IF ~is_connected(st) THEN
        LET s1 == _set_timeout(st, CONNECTION_TIMEOUT) IN
        IF s1.exc # "none" THEN {s1}
        ELSE {connect_outcome(
                  [Log(s1, "connect", r) EXCEPT !.sock = socket_after_connect(s1.sock, r)], r)
              : r \in socket_connect(s1.sock, net)}
    ELSE {Raise(st, "SocketAlreadyConnected")}

\* a disconnect that closes the handle only when the shutdown succeeded
disconnect_finally_on_success(st) ==
    IF st.ops[Len(st.ops)].res = "ok"
    THEN [Log(st, "close", "ok") EXCEPT !.sock = socket_close(st.sock)]
    ELSE st

\* the finally clause of disconnect
disconnect_finally(st) == [Log(st, "close", "ok") EXCEPT !.sock = socket_close(st.sock)]

\* shut is what the environment answers to the shutdown of a connected handle
disconnect(st, shut) ==
    LET s1 == [st EXCEPT !.conn = FALSE]
        r  == IF shut \in socket_shutdown(s1.sock) THEN shut ELSE "error"
    IN  disconnect_finally(Log(s1, "shutdown", r))

\* a reset that keeps the handle it has closed
reset_same_socket(st, shut) == disconnect(st, shut)

\* a reset that allocates a new handle without disconnect
reset_without_disconnect(st, shut) ==
    [st EXCEPT !.conn = FALSE, !.dropped = {st.sock.state}, !.sock = NewSocket]

\* a reset that allocates the new handle first and then disconnects it, leaving
\* the old handle as it was
reset_new_socket_first(st, shut) ==
    LET s1 == disconnect([st EXCEPT !.sock = NewSocket], shut) IN
    [s1 EXCEPT !.dropped = {st.sock.state}]

reset(st, shut) ==
    LET s1 == disconnect(st, shut) IN
    [s1 EXCEPT !.dropped = {s1.sock.state}, !.sock = NewSocket]

\* a send timeout taken for a lost connection
send_on_timeout_clears(st) == Raise([st EXCEPT !.conn = FALSE], "SocketTimeout")

\* a send timeout that ends the loop without an exception
send_on_timeout_swallows(st) == st

\* except socket.timeout, in the send loop
send_on_timeout(st) == Raise(st, "SocketTimeout")

\* the handler with the call of disconnect that the source has in a comment
send_on_error_disconnects(st) ==
    Raise(disconnect(st, "ok"), "SocketConnectionBroken")

\* except socket.error, in the send loop
send_on_error(st) == Raise([st EXCEPT !.conn = FALSE], "SocketConnectionBroken")

\* a send of 0 bytes that leaves the flag alone
send_on_zero_keeps(st) == Raise(st, "SocketConnectionBroken")

\* send() returned 0
send_on_zero(st) == Raise([st EXCEPT !.conn = FALSE], "SocketConnectionBroken")

\* a loop that hands the whole message to every socket.send call
send_buffer_whole(encoded_msg, bytes_sent) == encoded_msg

\* the argument of one socket.send call of the loop
send_buffer(encoded_msg, bytes_sent) == Drop(encoded_msg, bytes_sent)

\* a loop that applies the timeout before every socket.send
RECURSIVE send_loop_timeout_each(_, _, _)
send_loop_timeout_each(st, encoded_msg, bytes_sent) ==
    IF bytes_sent < Len(encoded_msg) THEN
        LET buf == send_buffer(encoded_msg, bytes_sent)
            s0  == _set_timeout(st, SEND_TIMEOUT)
        IN
        UNION {
            LET s1 == Log(s0, "send", IF r.kind = "ok" /\ r.n = 0 THEN "zero" ELSE r.kind) IN
            CASE r.kind = "timeout" -> {send_on_timeout(s1)}
              [] r.kind = "error" -> {send_on_error(s1)}
              [] r.kind = "ok" ->
                    IF r.n = 0 THEN {send_on_zero(s1)}
                    ELSE send_loop_timeout_each([s1 EXCEPT !.out = @ \o Take(buf, r.n)],
                                                encoded_msg, bytes_sent + r.n)
            : r \in socket_send(s0.sock, buf)}
    ELSE {st}

\* while bytes_sent < msg_len: the frames the loop can end in, from frame st
RECURSIVE send_loop(_, _, _)
send_loop(st, encoded_msg, bytes_sent) ==
    IF bytes_sent < Len(encoded_msg) THEN
        LET buf == send_buffer(encoded_msg, bytes_sent) IN
        UNION {
            LET s1 == Log(st, "send", IF r.kind = "ok" /\ r.n = 0 THEN "zero" ELSE r.kind) IN
            CASE r.kind = "timeout" -> {send_on_timeout(s1)}
              [] r.kind = "error" -> {send_on_error(s1)}
              [] r.kind = "ok" ->
                    IF r.n = 0 THEN {send_on_zero(s1)}
                    ELSE send_loop([s1 EXCEPT !.out = @ \o Take(buf, r.n)],
                                   encoded_msg, bytes_sent + r.n)
            : r \in socket_send(st.sock, buf)}
    ELSE {st}

\* send_raw_text with the test of the text before the test of the flag
send_raw_text_empty_first(st, raw_text) ==
    IF raw_text # <<>> THEN
        IF is_connected(st) THEN
            LET encoded_msg == encode(raw_text \o LINE_ENDINGS)
                s1 == _set_timeout(st, SEND_TIMEOUT)
            IN  IF s1.exc # "none" THEN {s1} ELSE send_loop(s1, encoded_msg, 0)
        ELSE {Raise(st, "SocketConnectionNotEstablished")}
    ELSE {st}

\* send_raw_text with the timeout applied before the test of the text
send_raw_text_timeout_first(st, raw_text) ==
    IF is_connected(st) THEN
        LET s1 == _set_timeout(st, SEND_TIMEOUT) IN
        IF s1.exc # "none" THEN {s1}
        ELSE IF raw_text # <<>>
             THEN send_loop(s1, encode(raw_text \o LINE_ENDINGS), 0)
             ELSE {s1}
    ELSE {Raise(st, "SocketConnectionNotEstablished")}

\* send_raw_text after its test of is_connected()
send_body(st, raw_text) ==
    IF raw_text # <<>> THEN
        LET encoded_msg == encode(raw_text \o LINE_ENDINGS)
            s1 == _set_timeout(st, SEND_TIMEOUT)
        IN  IF s1.exc # "none" THEN {s1} ELSE send_loop(s1, encoded_msg, 0)
    ELSE {st}

send_raw_text(st, raw_text) ==
    IF is_connected(st) THEN send_body(st, raw_text)
    ELSE {Raise(st, "SocketConnectionNotEstablished")}

\* 'PING' and 'PONG '
PING == <<80, 73, 78, 71>>

PONG == <<80, 79, 78, 71, 32>>

\* except socket.error, around recv
recv_on_error(st) == Raise([st EXCEPT !.conn = FALSE], "SocketConnectionBroken")

\* an empty read that leaves the flag alone
recv_on_empty_keeps(st) == Raise(st, "SocketConnectionBroken")

\* recv() returned b''
recv_on_empty(st) == Raise([st EXCEPT !.conn = FALSE], "SocketConnectionBroken")

\* a receive that reads once more after a timeout
recv_on_timeout_retries(st) == Raise(Log(st, "recv", "timeout"), "SocketTimeout")

\* a receive timeout taken for a lost connection
recv_on_timeout_clears(st) == Raise([st EXCEPT !.conn = FALSE], "SocketTimeout")

\* except socket.timeout, around recv
recv_on_timeout(st) == Raise(st, "SocketTimeout")

\* a strip that cuts the last two characters whatever they are
strip_line_ending_always(raw_text) ==
    SubSeq(raw_text, 1, Len(raw_text) - Len(LINE_ENDINGS))

\* a strip that removes every trailing line ending
RECURSIVE strip_line_ending_all(_)
strip_line_ending_all(raw_text) ==
    IF endswith(raw_text, LINE_ENDINGS)
    THEN strip_line_ending_all(SubSeq(raw_text, 1, Len(raw_text) - Len(LINE_ENDINGS)))
    ELSE raw_text

\* the text with one trailing line ending removed, when it ends with one
strip_line_ending(raw_text) ==
    IF endswith(raw_text, LINE_ENDINGS)
    THEN SubSeq(raw_text, 1, Len(raw_text) - Len(LINE_ENDINGS))
    ELSE raw_text

\* a loop that leaves after its first reply
RECURSIVE ping_loop_once(_, _)
ping_loop_once(st, lines) ==
    IF lines = <<>> THEN {st}
    ELSE LET line == Head(lines) IN
         IF startswith(line, PING) THEN
             LET words == split_ws(line, <<>>) IN
             IF Len(words) < 2 THEN {Raise(st, "IndexError")}
             ELSE send_raw_text(st, PONG \o words[2])
         ELSE ping_loop_once(st, Tail(lines))

\* a loop that swallows the failure of a reply and goes on with the next line
RECURSIVE ping_loop_swallows(_, _)
ping_loop_swallows(st, lines) ==
    IF lines = <<>> THEN {st}
    ELSE LET line == Head(lines) IN
         IF startswith(line, PING) THEN
             LET words == split_ws(line, <<>>) IN
             IF Len(words) < 2 THEN {Raise(st, "IndexError")}
             ELSE UNION {ping_loop_swallows([f EXCEPT !.exc = "none"], Tail(lines))
                         : f \in send_raw_text(st, PONG \o words[2])}
         ELSE ping_loop_swallows(st, Tail(lines))

\* for line in recvd_lines: the frames the loop can end in, from frame st; an
\* exception of send_raw_text, or of line.split()[1], ends it
RECURSIVE ping_loop(_, _)
ping_loop(st, lines) ==
    IF lines = <<>> THEN {st}
    ELSE LET line == Head(lines) IN
         IF startswith(line, PING) THEN
             LET words == split_ws(line, <<>>) IN
             IF Len(words) < 2 THEN {Raise(st, "IndexError")}
             ELSE UNION {IF f.exc # "none" THEN {f} ELSE ping_loop(f, Tail(lines))
                         : f \in send_raw_text(st, PONG \o words[2])}
         ELSE ping_loop(st, Tail(lines))

\* recv_raw_text with the timeout applied before the test of the flag
recv_raw_text_timeout_first(st, rd) ==
    LET s1 == _set_timeout(st, RECV_TIMEOUT) IN
    IF s1.exc # "none" THEN {s1}
    ELSE IF is_connected(s1) THEN {recv_on_timeout(Log(s1, "recv", "timeout"))}
         ELSE {Raise(s1, "SocketConnectionNotEstablished")}

\* recv_raw_text after its test of is_connected(); rd is what the peer answers
\* to the read
recv_body(st, rd) ==
    LET s1 == _set_timeout(st, RECV_TIMEOUT) IN
    IF s1.exc # "none" THEN {s1}
    ELSE LET r  == socket_recv(s1.sock, MAX_RECV_BYTES, rd)
             s2 == Log(s1, "recv", r.kind)
         IN  CASE r.kind = "timeout" -> {recv_on_timeout(s2)}
               [] r.kind = "error" -> {recv_on_error(s2)}
               [] r.kind = "data" ->
                     IF r.data = <<>> THEN {recv_on_empty(s2)}
                     ELSE LET decoded == decode(r.data) IN
                          IF ~decoded.ok THEN {Raise(s2, "UnicodeDecodeError")}
                          ELSE LET recvd_lines ==
                                       split_on(strip_line_ending(decoded.text), LINE_ENDINGS)
                               IN  {IF f.exc = "none" THEN [f EXCEPT !.ret = recvd_lines] ELSE f
                                    : f \in ping_loop(s2, recvd_lines)}

recv_raw_text(st, rd) ==
    IF is_connected(st) THEN recv_body(st, rd)
    ELSE {Raise(st, "SocketConnectionNotEstablished")}

----------------------------------------------------------------------------
(* Config: a configparser.ConfigParser behind methods that return 1 or 0.  *)
(* A frame is [cfg, depth, ret, value, exc]: the parser, the depth of the  *)
(* interpreter's call stack, and what the call returned or raised          *)

\* the depth of the call stack at which the interpreter raises RecursionError
MaxStackDepth == 4

\* ret of a call that has returned no number
NoReturn == -1

CfgFrame(cfg) == [cfg |-> cfg, depth |-> 0, ret |-> NoReturn, value |-> "", exc |-> "none"]

\* ConfigParser.optionxform: str.lower, on the keys 'k' and 'K'
optionxform(key) == IF key = "K" THEN "k" ELSE key

\* self._config.add_section(section): DuplicateSectionError is a configparser.Error
add_section(st, section) ==
    IF section \in st.cfg.sections
    THEN [st EXCEPT !.ret = 0]
    ELSE [st EXCEPT !.cfg.sections = @ \cup {section}, !.ret = 1]

\* self._config[section][key] = value: KeyError, for a section that does not
\* exist, is not a configparser.Error
add_key(st, section, key, value) ==
    IF section \notin st.cfg.sections
    THEN [st EXCEPT !.exc = "KeyError"]
    ELSE [st EXCEPT !.cfg.options =
                        {o \in @ : ~(o[1] = section /\ o[2] = optionxform(key))}
                        \cup {<<section, optionxform(key), value>>},
                    !.ret = 1]

\* remove_key calls self.remove_key(section, key), itself, until the
\* interpreter raises RecursionError, which is not a configparser.Error
RECURSIVE remove_key(_, _, _)
remove_key(st, section, key) ==
    IF st.depth >= MaxStackDepth
    THEN [st EXCEPT !.exc = "RecursionError"]
    ELSE LET r == remove_key([st EXCEPT !.depth = @ + 1], section, key) IN
         IF r.exc = "none" THEN [r EXCEPT !.depth = st.depth, !.ret = 1]
         ELSE IF r.exc = "configparser.Error"
              THEN [r EXCEPT !.depth = st.depth, !.ret = 0, !.exc = "none"]
              ELSE [r EXCEPT !.depth = st.depth]

\* self._config[section][key]: KeyError for a section or a key that does not exist
get_key(st, section, key) ==
    IF \E o \in st.cfg.options : o[1] = section /\ o[2] = optionxform(key)
    THEN [st EXCEPT !.value =
              (CHOOSE o \in st.cfg.options : o[1] = section /\ o[2] = optionxform(key))[3]]
    ELSE [st EXCEPT !.exc = "KeyError"]

----------------------------------------------------------------------------
(* The state machine: serialized calls on one IrcSocket *)

NoInput == [text |-> <<>>, env |-> "", data |-> <<>>]

\* the fields and the observations after a call of op that ended in frame f
Observe(op, in, f) ==
    /\ _is_connected' = f.conn
    /\ _socket' = f.sock
    /\ oldSockets' = oldSockets \cup f.dropped
    /\ lastOp' = op
    /\ lastIn' = in
    /\ lastExc' = f.exc
    /\ lastRet' = f.ret
    /\ ops' = f.ops

\* a call of an IrcSocket method from beginning to end
Outcome(op, in, f) ==
    /\ Observe(op, in, f)
    /\ UNCHANGED <<pending, _config, cfgLast>>

\* no call is between its is_connected() test and what follows it
NoCall == [op |-> "none", in |-> NoInput]

\* configparser.ConfigParser(): no section but DEFAULT, which has no option
NoSections == [sections |-> {}, options |-> {}]

\* IrcSocket(), Config(filename)
Init ==
    /\ _is_connected = FALSE
    /\ _socket = NewSocket
    /\ oldSockets = {}
    /\ wire = <<>>
    /\ lastOp = "init"
    /\ lastIn = NoInput
    /\ lastExc = "none"
    /\ lastRet = <<>>
    /\ ops = <<>>
    /\ pending = NoCall
    /\ _config = NoSections
    /\ cfgLast = [op |-> "init", section |-> "", key |-> "", ret |-> NoReturn,
                  value |-> "", exc |-> "none"]

Connect ==
    \E net \in NetOutcomes :
        \E f \in connect(Frame(_is_connected, _socket), net) :
            /\ Outcome("connect", [NoInput EXCEPT !.env = net], f)
            /\ wire' = <<>>

Disconnect ==
    \E shut \in {"ok", "error"} :
        /\ Outcome("disconnect", [NoInput EXCEPT !.env = shut],
                   disconnect(Frame(_is_connected, _socket), shut))
        /\ wire' = <<>>

Reset ==
    \E shut \in {"ok", "error"} :
        /\ Outcome("reset", [NoInput EXCEPT !.env = shut],
                   reset(Frame(_is_connected, _socket), shut))
        /\ wire' = <<>>

\* the characters of the texts a caller sends: ' ' and a character of two bytes
Alphabet == {32, 233}

\* the texts a caller sends, '' among them
Texts == UNION {[1..n -> Alphabet] : n \in 0..MaxTextLen}

Send ==
    /\ \E raw_text \in Texts :
           \E f \in send_raw_text(Frame(_is_connected, _socket), raw_text) :
               /\ Outcome("send", [NoInput EXCEPT !.text = raw_text], f)
               /\ wire' = f.out

\* what arrives in one read: nothing (the peer closed), 'PING x\r\n', 'PING\r\n',
\* 'a\r\nb\r\n', 'a\r\nb', 'a\r\n\r\n', '\r\n', 'c\r\n', and the first byte of a
\* two-byte character
ReadData ==
    { <<>>,
      <<80, 73, 78, 71, 32, 120, 13, 10>>,
      <<80, 73, 78, 71, 13, 10>>,
      <<97, 13, 10, 98, 13, 10>>,
      <<97, 13, 10, 98>>,
      <<97, 13, 10, 13, 10>>,
      <<13, 10>>,
      <<99, 13, 10>>,
      <<195>> }

ReadOutcomes ==
    {[kind |-> "timeout", data |-> <<>>], [kind |-> "error", data |-> <<>>]}
    \cup {[kind |-> "data", data |-> d] : d \in ReadData}

Recv ==
    /\ \E rd \in ReadOutcomes :
           \E f \in recv_raw_text(Frame(_is_connected, _socket), rd) :
               /\ Outcome("recv", [NoInput EXCEPT !.env = rd.kind, !.data = rd.data], f)
               /\ wire' = f.out

Next == Connect \/ Disconnect \/ Reset \/ Send \/ Recv

Spec == Init /\ [][Next]_vars

----------------------------------------------------------------------------
(* Two callers of one IrcSocket without a lock. The calls of the first     *)
(* (connect, disconnect, reset) are taken whole; send_raw_text and         *)
(* recv_raw_text of the second take two steps, the is_connected() test and *)
(* what follows it, and the first caller can run between the two           *)

\* what the peer answers to the read of the second caller: nothing in time,
\* an error, 'c\r\n', or nothing (the peer closed)
RaceReadOutcomes ==
    {[kind |-> "timeout", data |-> <<>>], [kind |-> "error", data |-> <<>>],
     [kind |-> "data", data |-> <<99, 13, 10>>], [kind |-> "data", data |-> <<>>]}

\* the calls the second caller makes
RaceCalls ==
    {[op |-> "send", in |-> [NoInput EXCEPT !.text = t]] : t \in Texts}
    \cup {[op |-> "recv", in |-> NoInput]}

\* if self.is_connected(): in send_raw_text and recv_raw_text
Check ==
    /\ pending = NoCall
    /\ \E call \in RaceCalls :
           IF is_connected(Frame(_is_connected, _socket))
           THEN /\ pending' = call
                /\ lastOp' = "check"
                /\ UNCHANGED <<_is_connected, _socket, oldSockets, wire, lastIn, lastExc,
                               lastRet, ops, _config, cfgLast>>
           ELSE /\ Observe(call.op, call.in,
                           Raise(Frame(_is_connected, _socket), "SocketConnectionNotEstablished"))
                /\ wire' = <<>>
                /\ UNCHANGED <<pending, _config, cfgLast>>

\* send_raw_text from the line after its test to its end
SendAct ==
    /\ pending.op = "send"
    /\ \E f \in send_body(Frame(_is_connected, _socket), pending.in.text) :
           /\ Observe("send", pending.in, f)
           /\ wire' = f.out
    /\ pending' = NoCall
    /\ UNCHANGED <<_config, cfgLast>>

\* recv_raw_text from the line after its test to its end
RecvAct ==
    /\ pending.op = "recv"
    /\ \E rd \in RaceReadOutcomes :
           \E f \in recv_body(Frame(_is_connected, _socket), rd) :
               /\ Observe("recv", [NoInput EXCEPT !.env = rd.kind, !.data = rd.data], f)
               /\ wire' = f.out
    /\ pending' = NoCall
    /\ UNCHANGED <<_config, cfgLast>>

NextRace == Connect \/ Disconnect \/ Reset \/ Check \/ SendAct \/ RecvAct

SpecRace == Init /\ [][NextRace]_vars

----------------------------------------------------------------------------
(* Calls on one Config *)

CfgSections == {"a", "b"}

CfgKeys == {"k", "K"}

CfgValues == {"v", "w"}

\* the parser and the observations after a call of op that ended in frame f
CfgOutcome(op, section, key, f) ==
    /\ _config' = f.cfg
    /\ cfgLast' = [op |-> op, section |-> section, key |-> key, ret |-> f.ret,
                   value |-> f.value, exc |-> f.exc]

\* the IrcSocket, which a call on the Config leaves alone
socketVars == <<_is_connected, _socket, oldSockets, wire, lastOp, lastIn, lastExc,
                lastRet, ops, pending>>

AddSection ==
    \E section \in CfgSections :
        /\ CfgOutcome("add_section", section, "", add_section(CfgFrame(_config), section))
        /\ UNCHANGED socketVars

AddKey ==
    \E section \in CfgSections, key \in CfgKeys, value \in CfgValues :
        /\ CfgOutcome("add_key", section, key,
                      add_key(CfgFrame(_config), section, key, value))
        /\ UNCHANGED socketVars

RemoveKey ==
    \E section \in CfgSections, key \in CfgKeys :
        /\ CfgOutcome("remove_key", section, key,
                      remove_key(CfgFrame(_config), section, key))
        /\ UNCHANGED socketVars

GetKey ==
    \E section \in CfgSections, key \in CfgKeys :
        /\ CfgOutcome("get_key", section, key, get_key(CfgFrame(_config), section, key))
        /\ UNCHANGED socketVars

NextConfig == AddSection \/ AddKey \/ RemoveKey \/ GetKey

SpecConfig == Init /\ [][NextConfig]_vars

----------------------------------------------------------------------------
(* A caller that connects, receives and resets, and a peer that sends      *)
(* lines beginning with PING, two of them in one read included             *)

\* what arrives in one read: 'PING x\r\nPING y\r\n', 'PINGx y\r\n', 'ping x\r\n',
\* 'a\r\nPING\r\n'
PingReadData ==
    { <<80, 73, 78, 71, 32, 120, 13, 10, 80, 73, 78, 71, 32, 121, 13, 10>>,
      <<80, 73, 78, 71, 120, 32, 121, 13, 10>>,
      <<112, 105, 110, 103, 32, 120, 13, 10>>,
      <<97, 13, 10, 80, 73, 78, 71, 13, 10>> }

\* the transport takes the replies of one read in at most this many send calls
MaxPingSends == 3

RecvPing ==
    /\ \E data \in PingReadData :
           \E f \in recv_raw_text(Frame(_is_connected, _socket), [kind |-> "data", data |-> data]) :
               /\ Cardinality({i \in DOMAIN f.ops : f.ops[i].call = "send"}) <= MaxPingSends
               /\ Outcome("recv", [NoInput EXCEPT !.env = "data", !.data = data], f)
               /\ wire' = f.out

NextPing == Connect \/ Reset \/ RecvPing

SpecPing == Init /\ [][NextPing]_vars

----------------------------------------------------------------------------
(* Properties *)

\* the calls of name call in a log
Calls(log, call) == {i \in DOMAIN log : log[i].call = call}

\* C1: the flag is false after construction; it goes from false to true only in a
\* connect call that returns, and from true to false only in a disconnect or reset
\* call or in a send or receive call that raises SocketConnectionBroken
C1_FlagChanges ==
    /\ ~_is_connected
    /\ [][/\ (~_is_connected /\ _is_connected') =>
                (lastOp' = "connect" /\ lastExc' = "none")
          /\ (_is_connected /\ ~_is_connected') =>
                \/ lastOp' \in {"disconnect", "reset"}
                \/ lastOp' \in {"send", "recv"} /\ lastExc' = "SocketConnectionBroken"]_vars

\* a send whose first attempt was accepted and whose second failed has cleared the flag
C1_Witness ==
    /\ lastOp = "send"
    /\ lastExc = "SocketConnectionBroken"
    /\ ~_is_connected
    /\ wire # <<>>

\* C2: a connect call made while the flag is true raises SocketAlreadyConnected, makes
\* no call on the handle and leaves the flag and the handle as they were
C2_ConnectWhileConnected ==
    [][(_is_connected /\ lastOp' = "connect") =>
           /\ lastExc' = "SocketAlreadyConnected"
           /\ ops' = <<>>
           /\ _is_connected'
           /\ _socket' = _socket]_vars

C2_Witness ==
    /\ lastOp = "connect"
    /\ lastExc = "SocketAlreadyConnected"
    /\ _is_connected
    /\ _socket.state = "connected"

\* C3: a send or receive call made while the flag is false raises
\* SocketConnectionNotEstablished, whatever the text, makes no call on the handle and
\* leaves the flag false and the handle as it was
C3_NotConnected ==
    [][(~_is_connected /\ lastOp' \in {"send", "recv"}) =>
           /\ lastExc' = "SocketConnectionNotEstablished"
           /\ ops' = <<>>
           /\ wire' = <<>>
           /\ ~_is_connected'
           /\ _socket' = _socket]_vars

\* send_raw_text('') on an unconnected object
C3_Witness ==
    /\ lastOp = "send"
    /\ lastIn.text = <<>>
    /\ lastExc = "SocketConnectionNotEstablished"
    /\ ~_is_connected

C5_EmptyRead ==
    /\ []((lastOp = "recv" /\ lastIn.env = "data" /\ lastIn.data = <<>>
              /\ Calls(ops, "recv") # {}) =>
          (lastExc = "SocketConnectionBroken" /\ ~_is_connected))
    /\ [][(lastOp = "recv" /\ lastIn.env = "data" /\ lastIn.data = <<>>
              /\ Calls(ops, "recv") # {} /\ lastOp' = "recv") =>
          (lastExc' = "SocketConnectionNotEstablished" /\ Calls(ops', "recv") = {})]_vars

C5_Witness ==
    /\ lastOp = "recv"
    /\ lastIn.env = "data"
    /\ lastIn.data = <<>>
    /\ Calls(ops, "recv") # {}
    /\ lastExc = "SocketConnectionBroken"

\* C6: after a send or receive call that raised SocketConnectionBroken the flag is false
C6_BrokenIsUnconnected ==
    (lastOp \in {"send", "recv"} /\ lastExc = "SocketConnectionBroken") => ~_is_connected

\* the failure is a write of 0 bytes on a later iteration of the send loop
C6_Witness ==
    /\ lastOp = "send"
    /\ lastExc = "SocketConnectionBroken"
    /\ Len(ops) >= 2
    /\ ops[Len(ops)].call = "send"
    /\ ops[Len(ops)].res = "zero"
    /\ ops[Len(ops) - 1].call = "send"
    /\ ops[Len(ops) - 1].res = "ok"

\* C7: a call that raises SocketTimeout leaves the flag as it was: true for a send or
\* receive call, false for a connect call
C7_TimeoutKeepsState ==
    [][(lastExc' = "SocketTimeout") =>
           /\ _is_connected' = _is_connected
           /\ lastOp' \in {"send", "recv"} => _is_connected'
           /\ lastOp' = "connect" => ~_is_connected']_vars

\* a send that timed out after part of the message was accepted
C7_Witness ==
    /\ lastOp = "send"
    /\ lastExc = "SocketTimeout"
    /\ wire # <<>>
    /\ _is_connected

\* C8: a connect call made while the flag is false returns with the flag true, or
\* raises SocketTimeout when the attempt timed out, or raises SocketConnectFailed when
\* it failed otherwise; after either failure the flag is false
C8_ConnectOutcomes ==
    [][(~_is_connected /\ lastOp' = "connect") =>
           /\ lastExc' \in {"none", "SocketTimeout", "SocketConnectFailed"}
           /\ _is_connected' <=> (lastExc' = "none")]_vars

\* C9: a disconnect call, in whatever state, raises nothing and leaves the flag false
\* and the handle closed; close is called after shutdown, also when shutdown failed
C9_Disconnect ==
    (lastOp = "disconnect") =>
        /\ lastExc = "none"
        /\ ~_is_connected
        /\ _socket.state = "closed"
        /\ Len(ops) = 2
        /\ ops[1].call = "shutdown"
        /\ ops[2].call = "close"

\* the shutdown failed on a handle that had carried a connection (a receive call has
\* set its timeout), and the handle was closed all the same
C9_Witness ==
    /\ lastOp = "disconnect"
    /\ lastIn.env = "error"
    /\ ops[1].res = "error"
    /\ ops[2].call = "close"
    /\ _socket.state = "closed"
    /\ _socket.timeout = RECV_TIMEOUT

\* C10: a connect call that follows a reset call, to an address the network answers,
\* returns and leaves the flag true
C10_ResetThenConnect ==
    [][(lastOp = "reset" /\ lastOp' = "connect" /\ lastIn'.env = "ok") =>
           (lastExc' = "none" /\ _is_connected' /\ _socket'.state = "connected")]_vars

\* connected on a handle that a reset allocated
C10_Witness ==
    /\ lastOp = "connect"
    /\ lastIn.env = "ok"
    /\ lastExc = "none"
    /\ _is_connected
    /\ oldSockets # {}

----------------------------------------------------------------------------
(* C11: the replies to PING *)

\* s from its first whitespace character on
RECURSIVE AfterToken(_)
AfterToken(s) ==
    IF s = <<>> \/ Head(s) \in Whitespace THEN s ELSE AfterToken(Tail(s))

\* s from its first character that is not whitespace on
RECURSIVE AfterSpace(_)
AfterSpace(s) ==
    IF s = <<>> \/ Head(s) \notin Whitespace THEN s ELSE AfterSpace(Tail(s))

\* the characters of s before its first whitespace character
RECURSIVE FirstToken(_)
FirstToken(s) ==
    IF s = <<>> \/ Head(s) \in Whitespace THEN <<>>
    ELSE <<Head(s)>> \o FirstToken(Tail(s))

\* the first whitespace-delimited token of a line after the token that begins
\* with PING
PingArg(line) == FirstToken(AfterSpace(AfterToken(line)))

\* 'PONG <arg>' + CR LF for every line that begins with 'PING', in line order
RECURSIVE Replies(_)
Replies(lines) ==
    IF lines = <<>> THEN <<>>
    ELSE (IF Len(Head(lines)) >= 4 /\ SubSeq(Head(lines), 1, 4) = <<80, 73, 78, 71>>
          THEN encode(<<80, 79, 78, 71, 32>> \o PingArg(Head(lines)) \o <<13, 10>>)
          ELSE <<>>)
         \o Replies(Tail(lines))

\* C11: when recv_raw_text returns, the bytes it sent are exactly one
\* 'PONG <arg>' + CR LF per returned line that begins with the characters PING,
\* in the order of the lines, <arg> being the first whitespace-delimited token
\* after PING; the other lines cause no bytes
C11_PongReplies ==
    (lastOp = "recv" /\ lastExc = "none") => wire = Replies(lastRet)

\* a read of 'PING x\r\nPING y\r\n' returned its two lines after two replies
C11_Witness ==
    /\ lastOp = "recv"
    /\ lastExc = "none"
    /\ lastRet = << <<80, 73, 78, 71, 32, 120>>, <<80, 73, 78, 71, 32, 121>> >>
    /\ wire = <<80, 79, 78, 71, 32, 120, 13, 10, 80, 79, 78, 71, 32, 121, 13, 10>>

----------------------------------------------------------------------------
(* C12: framing of a read *)

\* the pieces of s between its CR LF pairs, read from left to right
RECURSIVE RefLines(_, _)
RefLines(s, cur) ==
    IF s = <<>> THEN <<cur>>
    ELSE IF Len(s) >= 2 /\ s[1] = 13 /\ s[2] = 10
         THEN <<cur>> \o RefLines(SubSeq(s, 3, Len(s)), <<>>)
         ELSE RefLines(Tail(s), Append(cur, Head(s)))

\* the places of s where a CR LF pair starts
CrLfAt(s) == {i \in 1..(Len(s) - 1) : s[i] = 13 /\ s[i + 1] = 10}

\* C12: for every read that is not empty, recv_raw_text returns the decoded
\* text, with exactly one trailing CR LF removed when there is one, split on
\* CR LF in order; no returned line contains CR LF, and a read of n terminated
\* lines gives exactly n lines
C12_Framing ==
    (lastOp = "recv" /\ lastExc = "none") =>
        LET text == decode(lastIn.data).text
            terminated == (Len(text) - 1) \in CrLfAt(text)
            body == IF terminated THEN SubSeq(text, 1, Len(text) - 2) ELSE text
        IN  /\ lastRet = RefLines(body, <<>>)
            /\ \A i \in DOMAIN lastRet : CrLfAt(lastRet[i]) = {}
            /\ terminated => Len(lastRet) = Cardinality(CrLfAt(text))

\* a read of 'a\r\n\r\n' returned the line 'a' and an empty line
C12_Witness ==
    /\ lastOp = "recv"
    /\ lastExc = "none"
    /\ lastIn.data = <<97, 13, 10, 13, 10>>
    /\ lastRet = << <<97>>, <<>> >>

----------------------------------------------------------------------------
(* C13: send_raw_text of an empty text *)

\* the call did nothing: no exception, no byte, no call on the socket, the
\* fields as they were
SendDidNothing ==
    /\ lastExc' = "none"
    /\ wire' = <<>>
    /\ ops' = <<>>
    /\ _is_connected' = _is_connected
    /\ _socket' = _socket
    /\ oldSockets' = oldSockets

\* C13 as stated: send_raw_text while connected, with a text that is empty
\* after trimming (the empty string or whitespace only), does nothing
C13_TrimmedEmptyNoOp ==
    [][(_is_connected /\ lastOp' = "send"
        /\ \A i \in DOMAIN lastIn'.text : lastIn'.text[i] \in Whitespace)
       => SendDidNothing]_vars

\* C13: send_raw_text while connected does nothing exactly when the text is
\* the empty string; any other text, whitespace only included, is not trimmed
\* and goes to the socket
C13_EmptyNoOp ==
    [][(_is_connected /\ lastOp' = "send")
       => IF lastIn'.text = <<>>
          THEN SendDidNothing
          ELSE /\ Calls(ops', "send") # {}
               /\ lastExc' = "none" => wire' = encode(lastIn'.text \o <<13, 10>>)]_vars

\* a send of the empty string on a connected socket has returned
C13_Witness ==
    /\ lastOp = "send"
    /\ lastIn.text = <<>>
    /\ lastExc = "none"
    /\ _is_connected
    /\ _socket.state = "connected"

----------------------------------------------------------------------------
(* C14: the exceptions of recv_raw_text *)

\* C14: a recv_raw_text call that fails raises SocketConnectionNotEstablished,
\* SocketTimeout or SocketConnectionBroken, whatever the read holds, a bare
\* 'PING' line included
C14_RecvFailures ==
    lastOp = "recv" =>
        lastExc \in {"none", "SocketConnectionNotEstablished", "SocketTimeout",
                     "SocketConnectionBroken"}

----------------------------------------------------------------------------
(* C15: the flag is tested before the socket is used *)

\* C15 as stated: send_raw_text, recv_raw_text and disconnect each branch on
\* _is_connected before any call on the socket, so that with the flag false
\* none of them calls the socket
C15_BranchOnFlag ==
    [][(lastOp' \in {"send", "recv", "disconnect"} /\ ~_is_connected)
       => ops' = <<>>]_vars

\* C15: send_raw_text and recv_raw_text test _is_connected before any call on
\* the socket and make none when it is false; disconnect does not test it: it
\* clears the flag and calls shutdown and close on the socket, whatever the
\* flag was
C15_SendRecvBranchOnFlag ==
    [][/\ (lastOp' \in {"send", "recv"} /\ ~_is_connected)
          => (ops' = <<>> /\ lastExc' = "SocketConnectionNotEstablished")
       /\ (lastOp' = "disconnect")
          => (Calls(ops', "shutdown") = {1} /\ Calls(ops', "close") = {2}
              /\ ~_is_connected')]_vars

\* disconnect has called shutdown and close on a socket that no connect call
\* was ever made on
C15_Witness ==
    /\ lastOp = "disconnect"
    /\ _socket.timeout = TimeoutNone
    /\ Len(ops) = 2
    /\ ops[1].call = "shutdown"
    /\ ops[1].res = "error"

----------------------------------------------------------------------------
(* C16: the timeout in force at every call of the socket *)

----------------------------------------------------------------------------
(* C17: a socket.send that times out *)

\* C17: when a socket.send of send_raw_text times out, the call raises
\* SocketTimeout at once, without another socket.send, and leaves the flag
\* true; the bytes the earlier socket.send calls accepted have gone to the
\* peer, a proper prefix of the message, and are neither taken back nor sent
\* again: the next send_raw_text that returns hands the peer its own message
\* and nothing else, which so follows the unterminated fragment
C17_SendTimeout ==
    [][/\ (lastOp' = "send" /\ \E i \in Calls(ops', "send") : ops'[i].res = "timeout")
          => LET msg == encode(lastIn'.text \o <<13, 10>>) IN
             /\ lastExc' = "SocketTimeout"
             /\ ops'[Len(ops')].call = "send" /\ ops'[Len(ops')].res = "timeout"
             /\ \A i \in Calls(ops', "send") : i < Len(ops') => ops'[i].res = "ok"
             /\ _is_connected /\ _is_connected'
             /\ Len(wire') < Len(msg)
             /\ wire' = SubSeq(msg, 1, Len(wire'))
             /\ Len(wire') >= Cardinality(Calls(ops', "send")) - 1
       /\ (lastOp = "send" /\ lastExc = "SocketTimeout"
           /\ lastOp' = "send" /\ lastExc' = "none" /\ lastIn'.text # <<>>)
          => wire' = encode(lastIn'.text \o <<13, 10>>)]_vars

\* a send of one two-byte character timed out after the socket had accepted
\* the first of its bytes
C17_Witness ==
    /\ lastOp = "send"
    /\ lastExc = "SocketTimeout"
    /\ lastIn.text = <<233>>
    /\ wire = <<195>>
    /\ Len(ops) = 4

----------------------------------------------------------------------------
(* C18: a reply that fails inside recv_raw_text *)

\* the socket.send calls of the log that failed
FailedSends(log) == {i \in Calls(log, "send") : log[i].res # "ok"}

\* C18: when the send of a reply fails inside recv_raw_text, the call fails
\* with the exception of that send (SocketTimeout or SocketConnectionBroken)
\* and with the flag as the send left it; the lines of the read are not
\* returned, and nothing more is sent: the later PING lines of the read get
\* no reply
C18_ReplyFails ==
    (lastOp = "recv" /\ FailedSends(ops) # {}) =>
        LET text == decode(lastIn.data).text
            body == IF (Len(text) - 1) \in CrLfAt(text)
                    THEN SubSeq(text, 1, Len(text) - 2) ELSE text
            all  == Replies(RefLines(body, <<>>))
        IN  /\ FailedSends(ops) = {Len(ops)}
            /\ lastExc = (IF ops[Len(ops)].res = "timeout"
                          THEN "SocketTimeout" ELSE "SocketConnectionBroken")
            /\ _is_connected = (ops[Len(ops)].res = "timeout")
            /\ lastRet = <<>>
            /\ Len(wire) < Len(all)
            /\ wire = SubSeq(all, 1, Len(wire))

\* of a read of 'PING x\r\nPING y\r\n' the first reply broke after two bytes:
\* the call raised SocketConnectionBroken and the second line got no reply
C18_Witness ==
    /\ lastOp = "recv"
    /\ lastIn.data = <<80, 73, 78, 71, 32, 120, 13, 10, 80, 73, 78, 71, 32, 121, 13, 10>>
    /\ lastExc = "SocketConnectionBroken"
    /\ ~_is_connected
    /\ wire = <<80, 79>>
    /\ ops[Len(ops)].call = "send"

----------------------------------------------------------------------------
(* C19: reset *)

\* C19: reset, in any state, is disconnect followed by the allocation of a
\* new socket: it makes the calls disconnect makes, and afterwards the flag
\* is false, the socket it had is closed, the socket it has is new, open,
\* never connected and without a timeout; reset raises nothing
C19_Reset ==
    [][(lastOp' = "reset") =>
           LET d == disconnect(Frame(_is_connected, _socket), lastIn'.env) IN
           /\ lastExc' = "none"
           /\ ops' = d.ops
           /\ _is_connected' = d.conn
           /\ ~_is_connected'
           /\ d.sock.state = "closed"
           /\ oldSockets' = oldSockets \cup {"closed"}
           /\ _socket' = [state |-> "fresh", timeout |-> TimeoutNone]]_vars

\* reset of a connected IrcSocket: the shutdown succeeded, the old socket
\* is closed and the new one is fresh
C19_Witness ==
    /\ lastOp = "reset"
    /\ ops[1].call = "shutdown"
    /\ ops[1].res = "ok"
    /\ ops[1].tmo # TimeoutNone
    /\ oldSockets = {"closed"}
    /\ _socket.state = "fresh"
    /\ ~_is_connected

----------------------------------------------------------------------------
(* C20: what SocketConnectionBroken leaves of the socket *)

\* C20: a call that raises SocketConnectionBroken clears the flag and does
\* nothing else to the socket: it calls neither shutdown nor close, and the
\* socket stays the same, open one; a socket is closed by disconnect and
\* reset only, and replaced by reset only
C20_BrokenKeepsHandle ==
    [][/\ (lastExc' = "SocketConnectionBroken")
          => /\ _is_connected /\ ~_is_connected'
             /\ Calls(ops', "shutdown") = {} /\ Calls(ops', "close") = {}
             /\ _socket.state = "connected" /\ _socket'.state = "connected"
             /\ oldSockets' = oldSockets
       /\ (lastOp' \notin {"disconnect", "reset"})
          => /\ _socket.state # "closed" => _socket'.state # "closed"
             /\ oldSockets' = oldSockets]_vars

\* a socket.send failed: the flag is false and the socket is still the open,
\* connected one
C20_Witness ==
    /\ lastOp = "send"
    /\ lastExc = "SocketConnectionBroken"
    /\ ops[Len(ops)].res = "error"
    /\ ~_is_connected
    /\ _socket.state = "connected"

----------------------------------------------------------------------------
(* C21: one read per recv_raw_text, nothing kept between calls *)

\* the lines recv_raw_text makes of the bytes of one read
LinesOf(data) ==
    LET text == decode(data).text
        body == IF (Len(text) - 1) \in CrLfAt(text)
                THEN SubSeq(text, 1, Len(text) - 2) ELSE text
    IN  RefLines(body, <<>>)

\* C21: recv_raw_text keeps no data between calls: each call makes exactly
\* one socket.recv, never a second one, and its lines are those of that read
\* alone; an unterminated fragment at the end of a read is returned as a
\* line, and the rest of that protocol line is the first line of the next
\* call ('a\r\nb' then 'c\r\n' give 'a', 'b' and then 'c')
C21_OneReadNoBuffer ==
    [][(lastOp' = "recv" /\ _is_connected) =>
           /\ Cardinality(Calls(ops', "recv")) = 1
           /\ Len(lastIn'.data) <= 4096
           /\ (lastExc' = "none") => lastRet' = LinesOf(lastIn'.data)
           /\ (lastOp = "recv" /\ lastExc = "none" /\ lastExc' = "none"
               /\ lastIn.data = <<97, 13, 10, 98>> /\ lastIn'.data = <<99, 13, 10>>)
              => (lastRet = << <<97>>, <<98>> >> /\ lastRet' = << <<99>> >>)]_vars

\* a read of 'a\r\nb' returned the fragment 'b' as a line
C21_Witness ==
    /\ lastOp = "recv"
    /\ lastExc = "none"
    /\ lastIn.data = <<97, 13, 10, 98>>
    /\ lastRet = << <<97>>, <<98>> >>
    /\ Cardinality(Calls(ops, "recv")) = 1

----------------------------------------------------------------------------
(* C22: two callers without a lock *)

\* the second caller's call goes on after its test
Acts == pending # NoCall /\ pending' = NoCall

\* C22: IrcSocket has no lock, and with two callers a send_raw_text or
\* recv_raw_text can pass its is_connected() test and then call the socket
\* after a disconnect or reset of the other caller has cleared the flag and
\* closed the socket; that takes a call of the other caller between the test
\* and what follows it: when nothing runs in between, the flag is true and
\* the socket connected when the call goes on
C22_RaceNeedsInterleaving ==
    [][Acts =>
          /\ (lastOp = "check") => (_is_connected /\ _socket.state = "connected")
          /\ (~_is_connected \/ _socket.state # "connected")
             => lastOp \in {"connect", "disconnect", "reset"}]_vars

\* send_raw_text has called socket.send on a socket that a disconnect had
\* closed after the test
C22_Witness ==
    /\ lastOp = "send"
    /\ pending = NoCall
    /\ _socket.state = "closed"
    /\ Calls(ops, "send") = {Len(ops)}
    /\ ops[Len(ops)].res = "error"
    /\ lastExc = "SocketConnectionBroken"

----------------------------------------------------------------------------
(* C23: the send loop ends *)

\* C23: the loop of send_raw_text ends: every socket.send that does not fail
\* accepts at least one byte of what is left of the message, so a message of
\* n bytes takes at most n socket.send calls and a call that returns has
\* handed over exactly its n bytes; the send timeout is applied once, before
\* the first socket.send, and not inside the loop
C23_SendLoopEnds ==
    (lastOp = "send" /\ ops # <<>>) =>
        LET msg   == encode(lastIn.text \o <<13, 10>>)
            sends == Calls(ops, "send")
            oks   == {i \in sends : ops[i].res = "ok"}
        IN  /\ Cardinality(sends) <= Len(msg)
            /\ Cardinality(oks) <= Len(wire)
            /\ Len(wire) <= Len(msg)
            /\ wire = SubSeq(msg, 1, Len(wire))
            /\ Calls(ops, "gettimeout") = {1}
            /\ \A i \in Calls(ops, "settimeout"), j \in sends : i < j
            /\ (lastExc = "none")
               => (sends = oks /\ sends # {} /\ Len(wire) = Len(msg))

\* a message of four bytes went out in four socket.send calls of one byte
C23_Witness ==
    /\ lastOp = "send"
    /\ lastExc = "none"
    /\ lastIn.text = <<233>>
    /\ Cardinality(Calls(ops, "send")) = 4
    /\ Len(wire) = 4

----------------------------------------------------------------------------
(* C24: Config.remove_key *)

\* C24: Config.remove_key(section, key) ends, for every section and key: it
\* takes the key and its value out of the section and returns 1, or it
\* returns 0 when the parser reports an error
C24_RemoveKey ==
    [][(cfgLast'.op = "remove_key") =>
           /\ cfgLast'.exc = "none"
           /\ \/ /\ cfgLast'.ret = 1
                 /\ ~\E o \in _config'.options :
                        o[1] = cfgLast'.section /\ o[2] = optionxform(cfgLast'.key)
                 /\ \A o \in _config.options :
                        (o[1] # cfgLast'.section \/ o[2] # optionxform(cfgLast'.key))
                        => o \in _config'.options
              \/ /\ cfgLast'.ret = 0
                 /\ _config' = _config]_vars

----------------------------------------------------------------------------
(* C25: the lines put together again *)

\* the lines with CR LF between them
RECURSIVE Join(_)
Join(lines) ==
    IF lines = <<>> THEN <<>>
    ELSE IF Len(lines) = 1 THEN lines[1]
    ELSE lines[1] \o <<13, 10>> \o Join(Tail(lines))

\* C25: framing loses and doubles no character: the lines a recv_raw_text
\* call returns, joined with CR LF, are the decoded text of its read, or that
\* text without its one trailing CR LF
C25_JoinGivesText ==
    (lastOp = "recv" /\ lastExc = "none") =>
        LET text == decode(lastIn.data).text IN
        /\ lastRet # <<>>
        /\ \/ Join(lastRet) = text
           \/ Join(lastRet) \o <<13, 10>> = text

\* the lines 'a' and 'b' of the read 'a\r\nb\r\n': joined they lack its last
\* CR LF only
C25_Witness ==
    /\ lastOp = "recv"
    /\ lastExc = "none"
    /\ lastIn.data = <<97, 13, 10, 98, 13, 10>>
    /\ Join(lastRet) = <<97, 13, 10, 98>>

----------------------------------------------------------------------------
(* C26: recv_raw_text called with the flag true *)

\* C26: with calls one at a time, a recv_raw_text call that starts with the
\* flag true never raises SocketConnectionNotEstablished: the reply is sent
\* only while the flag is still true and the first reply that fails ends the
\* call; such a call fails with SocketTimeout or SocketConnectionBroken only
C26_ConnectedRecvFailures ==
    [][(_is_connected /\ lastOp' = "recv")
       => lastExc' \in {"none", "SocketTimeout", "SocketConnectionBroken"}]_vars

----------------------------------------------------------------------------
(* C27: one socket at a time *)

\* C27: the IrcSocket has one current socket, and at most one socket is open
\* at any time: every socket that reset has replaced was closed when it was
\* replaced, reset calling close on the old socket before it allocates the
\* new one
C27_OneOpenHandle ==
    /\ oldSockets \subseteq {"closed"}
    /\ _socket.state \in {"fresh", "unspec", "connected", "closed"}
    /\ (lastOp = "reset")
       => (ops # <<>> /\ Calls(ops, "close") = {Len(ops)} /\ _socket.state = "fresh")

\* reset has closed and replaced a socket that was never used
C27_Witness ==
    /\ lastOp = "reset"
    /\ oldSockets = {"closed"}
    /\ ops[1].call = "shutdown"
    /\ ops[1].res = "error"
    /\ ops[1].tmo = TimeoutNone
    /\ _socket.state = "fresh"

----------------------------------------------------------------------------
(* C28: connect on a socket that has been used *)

\* C28: connect succeeds on a new socket only: once disconnect has closed
\* the socket, or the socket has carried a connection that ended with
\* SocketConnectionBroken, every connect call before a reset fails and
\* leaves the flag false, so the flag becomes true again only after a reset
C28_ConnectNeedsNewSocket ==
    [][(lastOp' = "connect" /\ ~_is_connected /\ _socket.state \in {"closed", "connected"})
       => (lastExc' # "none" /\ ~_is_connected')]_vars

====
